---- MODULE Spec2Model ----
(***************************************************************************)
(* Page-object runtime of adctest: lazy element descriptors, the per-page  *)
(* cache of resolved attributes, navigation, tab focusing, the element     *)
(* proxy with its re-attachment decorator, the visibility wait and the     *)
(* table header parser.                                                    *)
(*                                                                         *)
(* Strings are sequences of one-character strings.  In URLs the single     *)
(* token "H" stands for the scheme and host ("http://host").               *)
(***************************************************************************)
EXTENDS Integers, Sequences, FiniteSets, TLC

VARIABLES
    page_url,        \* BasePage.page_url after BasePageMeta (absolute URL)
    valid_urls,      \* BasePage.valid_urls after BasePageMeta (list of absolute URLs)
    current_url,     \* driver.current_url
    cached_attrs,    \* page._cached_attrs: attribute name -> cached object
    proxies,         \* every WebElementProxy created so far, by identity
    elems,           \* every WebElement the driver returned so far, by identity;
                     \* old: found before the latest driver.get
    stale,           \* WebElements that are no longer attached to the DOM
    searches,        \* page._find_element(s) calls made by the latest operation on the page or proxy
    window_handles,  \* driver.window_handles
    focused,         \* the window the driver is switched to
    nhandles,        \* number of window handles created so far
    stack,           \* frames of the proxy method call in progress
    exc,             \* exception propagating through the frames ("none" if none)
    log,             \* driver interactions of the latest proxy call
    last,            \* the step taken last and what it returned or raised
    thead,           \* parsed innerHTML of the table's <thead>
    head_search_attrs, \* Table._head_search_attrs
    columns_indexes, \* Table.columns_indexes
    real_column_count, \* Table.real_column_count
    w,               \* the call of wait_visibility_one_of_elements in progress or finished last
    display,         \* what is_displayed() of each element passed to the wait answers now
    class_dict,      \* the public attributes of the config class (its __dict__)
    instance_dict,   \* the __dict__ of the config object
    files,           \* the generated modules on disk: path -> content
    navigation_classes_import_list, \* AngularFormatParser.navigation_classes_import_list
    page_dict        \* the descriptors ListOfElementDescriptor has put in page.__dict__

vars == <<page_url, valid_urls, current_url, cached_attrs, proxies, elems,
          stale, searches, window_handles, focused, nhandles, stack, exc, log,
          last, thead, head_search_attrs, columns_indexes, real_column_count, w,
          display, class_dict, instance_dict, files,
          navigation_classes_import_list, page_dict>>

pageVars == <<page_url, valid_urls, current_url, cached_attrs, proxies,
              elems, stale, searches, window_handles, focused, nhandles, stack,
              exc, log>>

waitVars == <<w, display>>

configVars == <<class_dict, instance_dict>>

parserVars == <<files, navigation_classes_import_list>>

tableVars == <<thead, head_search_attrs, columns_indexes, real_column_count>>

-----------------------------------------------------------------------------
(* Bounds *)

MaxElems == 3
MaxProxies == 2
MaxHandles == 2

-----------------------------------------------------------------------------
(* Strings and URLs *)

RECURSIVE rstrip(_, _)
rstrip(s, c) ==
    IF Len(s) > 0 /\ s[Len(s)] = c THEN rstrip(SubSeq(s, 1, Len(s) - 1), c) ELSE s

\* Python's "sub in s"
Contains(sub, s) ==
    \E i \in 0..(Len(s) - Len(sub)) : SubSeq(s, i + 1, i + Len(sub)) = sub

IndexOf(s, c) ==
    IF \E i \in 1..Len(s) : s[i] = c
    THEN CHOOSE i \in 1..Len(s) : s[i] = c /\ \A j \in 1..(i - 1) : s[j] # c
    ELSE 0

HasScheme(url) == Len(url) > 0 /\ url[1] = "H"

\* <<url without the query string, query string>>
split_url_and_params(url) ==
    IF ~HasScheme(url) THEN <<url, <<>>>>
    ELSE LET q == IndexOf(url, "?")
         IN IF q = 0 THEN <<url, <<>>>>
            ELSE <<SubSeq(url, 1, q - 1), SubSeq(url, q + 1, Len(url))>>

get_base_url(url) == split_url_and_params(url)[1]

add_url_params(url, params) ==
    IF params = <<>> THEN url
    ELSE url \o (IF Contains(<<"?">>, url) THEN <<"&">> ELSE <<"?">>) \o params

base_url == <<"H">>

\* urllib.parse.urljoin for an empty reference or an absolute-path reference
urljoin(base, url) ==
    IF url = <<>> THEN base ELSE <<"H">> \o url

JoinBase(url) == urljoin(base_url, url)

\* BasePageMeta.__new__: the class attributes page_url and valid_urls
MetaPageUrl(route) == urljoin(base_url, route)
MetaValidUrls(declared, route) ==
    LET urls == Append(declared, route)
    IN [i \in 1..Len(urls) |-> JoinBase(urls[i])]

\* BasePage.check_opened: TRUE iff it returns without raising PageNotOpened
check_opened ==
    \E i \in 1..Len(valid_urls) :
        Contains(rstrip(valid_urls[i], "/"), get_base_url(current_url))

\* BasePage._search_in_valid_urls: <<>> stands for raising PageNotOpened
search_in_valid_urls(pattern) ==
    LET sp == split_url_and_params(pattern)
        hits == {i \in 1..Len(valid_urls) : Contains(rstrip(sp[1], "/"), valid_urls[i])}
    IN
    IF hits = {} THEN <<>>
    ELSE LET url == valid_urls[CHOOSE i \in hits : \A j \in hits : i <= j]
         IN IF sp[2] # <<>> THEN url \o <<"?">> \o sp[2] ELSE url

-----------------------------------------------------------------------------
(* Page attributes, proxies, elements *)

\* The attributes declared on the page class: an ElementDescriptor, an
\* ElementDescriptor(many=True) and a Table.  The locator of an attribute is
\* identified with the attribute's name.
Attrs == {"btn", "rows", "tbl"}
Kind(a) == IF a = "btn" THEN "proxy" ELSE IF a = "rows" THEN "list" ELSE "table"

NoAttr == ""
NoEntry == [kind |-> "none", ids |-> <<>>]
NoUrl == <<>>
EmptyCache == [a \in {} |-> NoEntry]

Put(cache, a, entry) == [x \in DOMAIN cache \cup {a} |-> IF x = a THEN entry ELSE cache[x]]
Pop(cache, a) == [x \in DOMAIN cache \ {a} |-> cache[x]]

\* what the step taken last was (op), on which attribute or method (arg), how it
\* ended (res: "ok" or the exception raised), what it returned (ret), the URL
\* it passed to driver.get (url) and the custom_url it was given (custom)
Step(op, arg, res, ret, url) ==
    [op |-> op, arg |-> arg, res |-> res, ret |-> ret, url |-> url, custom |-> <<>>]

AllElems == 1..Len(elems)

\* WebElementProxy.__init__
NewProxy(a, loc, e) == [attr_name |-> a, locator |-> loc, obj |-> e]
\* a WebElement the driver returns for a locator
NewElem(loc) == [loc |-> loc, old |-> FALSE]

\* URL the browser shows once driver.get(url) returned: the URL itself or the
\* page the application redirects to
RedirectUrl == <<"H", "/", "x">>
Landing(url) == {url, RedirectUrl}

-----------------------------------------------------------------------------
(* AbstractBasePage._open / open_redirect_url / BasePage.open *)

DoOpen_KeepsCache(op, url, res, custom) ==
    /\ elems' = [e \in AllElems |-> [elems[e] EXCEPT !.old = TRUE]]
    /\ stale' = AllElems
    /\ searches' = 0
    /\ current_url' \in Landing(url)
    /\ last' = [Step(op, NoAttr, res, NoEntry, url) EXCEPT !.custom = custom]
    /\ exc' = "none" /\ log' = <<>>
    /\ UNCHANGED <<page_url, valid_urls, cached_attrs, proxies, window_handles, focused,
                   nhandles, stack>>

\* AbstractBasePage._open: clear the cache, driver.get, wait_page_loaded;
\* res is "ok" or the exception of the waits that follow driver.get
DoOpen(op, url, res, custom) ==
    /\ cached_attrs' = EmptyCache
    /\ elems' = [e \in AllElems |-> [elems[e] EXCEPT !.old = TRUE]]
    /\ stale' = AllElems
    /\ searches' = 0
    /\ current_url' \in Landing(url)
    /\ last' = [Step(op, NoAttr, res, NoEntry, url) EXCEPT !.custom = custom]
    /\ exc' = "none" /\ log' = <<>>
    /\ UNCHANGED <<page_url, valid_urls, proxies, window_handles, focused, nhandles,
                   stack>>

make_valid_url_Unchecked(custom_url, params) ==
    add_url_params(IF custom_url # <<>> THEN urljoin(base_url, custom_url) ELSE page_url, params)

\* BasePage._make_valid_url: NoUrl stands for raising PageNotOpened
make_valid_url(custom_url, params) ==
    LET url == IF custom_url # <<>> THEN search_in_valid_urls(custom_url) ELSE page_url
    IN IF url = NoUrl THEN NoUrl ELSE add_url_params(url, params)

\* BasePage.open
open(custom_url, params) ==
    /\ stack = <<>>
    /\ LET url == make_valid_url(custom_url, params)
       IN IF url = NoUrl
          THEN /\ last' = [Step("open", NoAttr, "PageNotOpened", NoEntry, NoUrl)
                              EXCEPT !.custom = custom_url]
               /\ exc' = "none" /\ log' = <<>> /\ searches' = 0
               /\ UNCHANGED <<page_url, valid_urls, current_url, cached_attrs,
                              proxies, elems, stale, window_handles, focused,
                              nhandles, stack>>
          ELSE \E res \in {"ok", "TimeoutException"} :
                  DoOpen("open", url, res, custom_url)

\* AbstractBasePage.open_redirect_url
open_redirect_url(url) ==
    /\ stack = <<>>
    /\ DoOpen("open_redirect_url", url, "ok", <<>>)

-----------------------------------------------------------------------------
(* ElementDescriptor.__get__ / Table.__get__ *)

\* ElementDescriptor._search_element, many=False
SearchOne(a) ==
    /\ searches' = 1
    /\ \/ /\ Len(elems) < MaxElems /\ Len(proxies) < MaxProxies
          /\ elems' = Append(elems, NewElem(a))
          /\ proxies' = Append(proxies, NewProxy(a, a, Len(elems) + 1))
          /\ LET entry == [kind |-> "proxy", ids |-> <<Len(proxies) + 1>>]
             IN /\ cached_attrs' = Put(cached_attrs, a, entry)
                /\ last' = Step("get", a, "ok", entry, NoUrl)
       \/ /\ last' = Step("get", a, "NoSuchElementException", NoEntry, NoUrl)
          /\ UNCHANGED <<elems, proxies, cached_attrs>>

\* ElementDescriptor._search_element, many=True
SearchMany(a) ==
    /\ searches' = 1
    /\ \/ \E k \in 1..2 :
            /\ Len(elems) + k <= MaxElems /\ Len(proxies) + k <= MaxProxies
            /\ elems' = elems \o [i \in 1..k |-> NewElem(a)]
            /\ proxies' = proxies \o [i \in 1..k |-> NewProxy(a, a, Len(elems) + i)]
            /\ LET entry == [kind |-> "list", ids |-> [i \in 1..k |-> Len(proxies) + i]]
               IN /\ cached_attrs' = Put(cached_attrs, a, entry)
                  /\ last' = Step("get", a, "ok", entry, NoUrl)
       \/ /\ last' = Step("get", a, "BasePageException", NoEntry, NoUrl)
          /\ UNCHANGED <<elems, proxies, cached_attrs>>

\* Table.__get__ on a cache miss: _search_table, then _parse_header, then cache
SearchTable(a) ==
    /\ searches' = 1
    /\ \/ /\ Len(elems) < MaxElems /\ Len(proxies) < MaxProxies
          /\ elems' = Append(elems, NewElem(a))
          /\ proxies' = Append(proxies, NewProxy(a, a, Len(elems) + 1))
          /\ \/ LET entry == [kind |-> "table", ids |-> <<Len(proxies) + 1>>]
                IN /\ cached_attrs' = Put(cached_attrs, a, entry)
                   /\ last' = Step("get", a, "ok", entry, NoUrl)
             \/ /\ last' = Step("get", a, "ValueError", NoEntry, NoUrl)
                /\ UNCHANGED cached_attrs
       \/ /\ last' = Step("get", a, "NoSuchElementException", NoEntry, NoUrl)
          /\ UNCHANGED <<elems, proxies, cached_attrs>>

search_element(a) ==
    IF Kind(a) = "proxy" THEN SearchOne(a)
    ELSE IF Kind(a) = "list" THEN SearchMany(a)
    ELSE SearchTable(a)

CacheMiss_Always(a) == TRUE

\* cached_attrs.get(name) is None
CacheMiss(a) == a \notin DOMAIN cached_attrs

\* ElementDescriptor.__get__ and Table.__get__: reading page.<a>
Get(a) ==
    /\ stack = <<>>
    /\ IF ~check_opened
       THEN /\ last' = Step("get", a, "PageNotOpened", NoEntry, NoUrl)
            /\ searches' = 0
            /\ UNCHANGED <<cached_attrs, proxies, elems>>
       ELSE IF CacheMiss(a)
       THEN search_element(a)
       ELSE /\ last' = Step("get", a, "ok", cached_attrs[a], NoUrl)
            /\ searches' = 0
            /\ UNCHANGED <<cached_attrs, proxies, elems>>
    /\ exc' = "none" /\ log' = <<>>
    /\ UNCHANGED <<page_url, valid_urls, current_url, stale, window_handles,
                   focused, nhandles, stack>>

-----------------------------------------------------------------------------
(* Tabs: AbstractBasePage.focus_on_last_opened_tab / focus_on_first_opened_tab *)

PopLast_TakesFirst(tabs) == tabs[1]

\* all_tabs.pop(-1) / all_tabs.pop(0)
PopLast(tabs) == tabs[Len(tabs)]
PopFirst(tabs) == tabs[1]

\* _close_tabs(all_tabs) followed by switch_to.window(tab_to_focus); elements
\* found in another window do not belong to the document now focused
FocusOn(tab_to_focus) ==
    IF Len(window_handles) > 1
    THEN /\ cached_attrs' = EmptyCache
         /\ window_handles' = <<tab_to_focus>>
         /\ focused' = tab_to_focus
         /\ stale' = IF tab_to_focus # focused THEN AllElems ELSE stale
    ELSE UNCHANGED <<cached_attrs, window_handles, focused, stale>>

FocusLastEffect == FocusOn(PopLast(window_handles))
FocusFirstEffect == FocusOn(PopFirst(window_handles))

focus_on_last_opened_tab ==
    /\ stack = <<>>
    /\ FocusLastEffect
    /\ last' = Step("focus_on_last_opened_tab", NoAttr, "ok", NoEntry, NoUrl)
    /\ exc' = "none" /\ log' = <<>> /\ searches' = 0
    /\ UNCHANGED <<page_url, valid_urls, current_url, proxies, elems, nhandles, stack>>

focus_on_first_opened_tab ==
    /\ stack = <<>>
    /\ FocusFirstEffect
    /\ last' = Step("focus_on_first_opened_tab", NoAttr, "ok", NoEntry, NoUrl)
    /\ exc' = "none" /\ log' = <<>> /\ searches' = 0
    /\ UNCHANGED <<page_url, valid_urls, current_url, proxies, elems, nhandles, stack>>

-----------------------------------------------------------------------------
(* WebElementProxy: __getattribute__, catch_not_attach_to_session, methods *)

\* names found in WebElementProxy.__dict__ (get_subclass_attributes)
ProxyMethods == {"click", "click_and_wait", "until"}
\* a method of the wrapped WebElement, reached through getattr(self._obj, name)
DelegatedMethods == {"get_attribute"}

proxy_has_attr(name) == name \in ProxyMethods

Stale == "StaleElementReferenceException"
NoSuch == "NoSuchElementException"
Timeout == "TimeoutException"
WebDriverExc == "WebDriverException"
ProxyExc == "WebElementProxyException"

EntryPc_ClickFirst(fn) ==
    CASE fn = "click" -> "obj_click"
      [] fn = "click_and_wait" -> "click"
      [] fn = "until" -> "wait"
      [] OTHER -> "invoke"

\* first statement of each method body
EntryPc(fn) ==
    CASE fn = "click" -> "until"
      [] fn = "click_and_wait" -> "click"
      [] fn = "until" -> "wait"
      [] OTHER -> "invoke"

\* WebElementProxy.__getattribute__: the bound method that the decorator wraps.
\* target = 0: a method of the proxy (bound to the proxy); otherwise the
\* WebElement whose method was fetched with getattr(self._obj, name).
BoundTarget(p, fn) == IF proxy_has_attr(fn) THEN 0 ELSE proxies[p].obj

Bind(p, fn, focus) ==
    [fn |-> fn, proxy |-> p, target |-> BoundTarget(p, fn), attempt |-> 1,
     pc |-> EntryPc(fn), focus |-> focus]

Top == stack[Len(stack)]
SetTop(f) == [stack EXCEPT ![Len(stack)] = f]
PopFrame == SubSeq(stack, 1, Len(stack) - 1)

\* one driver interaction of the call in progress: what was done, on which
\* WebElement, which WebElement the proxy wrapped then, in which attempt of the
\* wrapper, with which focus_on_opened_tab, and how it ended
Ev(ev, e, res) ==
    [ev |-> ev, elem |-> e, obj |-> proxies[Top.proxy].obj, fn |-> Top.fn,
     attempt |-> Top.attempt, focus |-> Top.focus, res |-> res]

callFrame == <<page_url, valid_urls, current_url>>

\* the test calls proxy.<fn>(...)
Call(p, fn, focus) ==
    /\ stack = <<>>
    /\ p \in 1..Len(proxies)
    /\ stack' = <<Bind(p, fn, focus)>>
    /\ exc' = "none"
    /\ log' = <<>>
    /\ last' = Step("call", fn, "", NoEntry, NoUrl)
    /\ searches' = 0
    /\ UNCHANGED <<callFrame, cached_attrs, proxies, elems, stale, window_handles,
                   focused, nhandles>>

\* body of a method delegated to the WebElement it was fetched from
Invoke ==
    /\ stack # <<>> /\ exc = "none"
    /\ Top.fn \in DelegatedMethods /\ Top.pc = "invoke"
    /\ \E res \in (IF Top.target \in stale THEN {Stale} ELSE {"ok", WebDriverExc}) :
          /\ log' = Append(log, Ev("invoke", Top.target, res))
          /\ IF res = "ok"
             THEN stack' = PopFrame /\ exc' = exc
             ELSE stack' = stack /\ exc' = res
          /\ last' = Step("invoke", Top.fn, res, NoEntry, NoUrl)
    /\ UNCHANGED <<callFrame, cached_attrs, proxies, elems, stale, searches,
                   window_handles, focused, nhandles>>

\* WebElementProxy.until: page.wait.until(condition(self.locator))
Until ==
    /\ stack # <<>> /\ exc = "none"
    /\ Top.fn = "until" /\ Top.pc = "wait"
    /\ \E res \in {"ok", Timeout} :
          /\ log' = Append(log, Ev("until", 0, res))
          /\ IF res = "ok"
             THEN stack' = PopFrame /\ exc' = exc
             ELSE stack' = stack /\ exc' = res
          /\ last' = Step("until", Top.fn, res, NoEntry, NoUrl)
    /\ UNCHANGED <<callFrame, cached_attrs, proxies, elems, stale, searches,
                   window_handles, focused, nhandles>>

\* WebElementProxy.click, first statement: self.until(EC.element_to_be_clickable)
ClickUntil ==
    /\ stack # <<>> /\ exc = "none"
    /\ Top.fn = "click" /\ Top.pc = "until"
    /\ stack' = Append(SetTop([Top EXCEPT !.pc = "obj_click"]), Bind(Top.proxy, "until", FALSE))
    /\ last' = Step("click.until", Top.fn, "", NoEntry, NoUrl)
    /\ UNCHANGED <<callFrame, cached_attrs, proxies, elems, stale, searches,
                   window_handles, focused, nhandles, exc, log>>

\* WebElementProxy.click, second statement: self._obj.click(); the click may
\* make the application open a new tab
ClickObj ==
    /\ stack # <<>> /\ exc = "none"
    /\ Top.fn = "click" /\ Top.pc = "obj_click"
    /\ LET e == proxies[Top.proxy].obj
       IN \E res \in (IF e \in stale THEN {Stale} ELSE {"ok", WebDriverExc}) :
             /\ log' = Append(log, Ev("click", e, res))
             /\ IF res = "ok"
                THEN /\ stack' = SetTop([Top EXCEPT !.pc = "focus"])
                     /\ exc' = exc
                     /\ \/ UNCHANGED <<window_handles, nhandles>>
                        \/ /\ nhandles < MaxHandles
                           /\ nhandles' = nhandles + 1
                           /\ window_handles' = Append(window_handles, nhandles + 1)
                ELSE /\ stack' = stack /\ exc' = res
                     /\ UNCHANGED <<window_handles, nhandles>>
             /\ last' = Step("click.obj", Top.fn, res, NoEntry, NoUrl)
    /\ UNCHANGED <<callFrame, cached_attrs, proxies, elems, stale, searches, focused>>

\* WebElementProxy.click, last statement:
\* if focus_on_opened_tab: self.page.focus_on_last_opened_tab()
ClickFocus ==
    /\ stack # <<>> /\ exc = "none"
    /\ Top.fn = "click" /\ Top.pc = "focus"
    /\ IF Top.focus
       THEN /\ FocusLastEffect
            /\ log' = Append(log, Ev("focus", 0, "ok"))
       ELSE UNCHANGED <<cached_attrs, window_handles, focused, stale, log>>
    /\ stack' = PopFrame
    /\ last' = Step("click.focus", Top.fn, "ok", NoEntry, NoUrl)
    /\ UNCHANGED <<callFrame, proxies, elems, searches, nhandles, exc>>

\* WebElementProxy.click_and_wait, first statement: self.click(focus_on_opened_tab=...)
WaitClick ==
    /\ stack # <<>> /\ exc = "none"
    /\ Top.fn = "click_and_wait" /\ Top.pc = "click"
    /\ stack' = Append(SetTop([Top EXCEPT !.pc = "loader"]), Bind(Top.proxy, "click", Top.focus))
    /\ last' = Step("click_and_wait.click", Top.fn, "", NoEntry, NoUrl)
    /\ UNCHANGED <<callFrame, cached_attrs, proxies, elems, stale, searches,
                   window_handles, focused, nhandles, exc, log>>

\* AbstractBasePage.wait_loaders_hidden, called by click_and_wait:
\* wait_loader_not_visible(), then wait_tableloader_not_visible()
NextLoader(pc) == IF pc = "loader" THEN "tableloader" ELSE "return"

WaitLoaders ==
    /\ stack # <<>> /\ exc = "none"
    /\ Top.fn = "click_and_wait" /\ Top.pc \in {"loader", "tableloader"}
    /\ \E res \in {"ok", Timeout} :
          /\ log' = Append(log, Ev(Top.pc, 0, res))
          /\ IF res # "ok"
             THEN stack' = stack /\ exc' = res
             ELSE /\ exc' = exc
                  /\ stack' = IF NextLoader(Top.pc) = "return" THEN PopFrame
                              ELSE SetTop([Top EXCEPT !.pc = NextLoader(Top.pc)])
          /\ last' = Step("click_and_wait.loaders", Top.fn, res, NoEntry, NoUrl)
    /\ UNCHANGED <<callFrame, cached_attrs, proxies, elems, stale, searches,
                   window_handles, focused, nhandles>>

Reattach_SameAttempt(p, frame) == [frame EXCEPT !.pc = EntryPc(frame.fn)]

\* WebElementProxy._reload_target_object, called by the wrapper on
\* StaleElementReferenceException in the first attempt; when the element is
\* found the wrapper calls the same function object again
Reattach(p, frame) == [frame EXCEPT !.attempt = 2, !.pc = EntryPc(frame.fn)]

CacheAfterReload_NotRestored(p) == Pop(cached_attrs, proxies[p].attr_name)

\* _reload_target_object: the cache entry of attr_name after pop and re-insert
CacheAfterReload(p) == Put(cached_attrs, proxies[p].attr_name, [kind |-> "proxy", ids |-> <<p>>])

reload_target_object ==
    /\ stack # <<>> /\ exc = Stale /\ Top.attempt = 1
    /\ searches' = searches + 1
    /\ LET p == Top.proxy
           name == proxies[p].attr_name
       IN \/ /\ Len(elems) < MaxElems
             /\ elems' = Append(elems, NewElem(proxies[p].locator))
             /\ proxies' = [proxies EXCEPT ![p].obj = Len(elems) + 1]
             /\ cached_attrs' = IF name # NoAttr THEN CacheAfterReload(p) ELSE cached_attrs
             /\ stack' = SetTop(Reattach(p, Top))
             /\ exc' = "none"
             /\ log' = Append(log, Ev("reload", Len(elems) + 1, "ok"))
             /\ last' = Step("reload", Top.fn, "ok", NoEntry, NoUrl)
          \/ /\ cached_attrs' = IF name # NoAttr THEN Pop(cached_attrs, name) ELSE cached_attrs
             /\ stack' = PopFrame
             /\ exc' = NoSuch
             /\ log' = Append(log, Ev("reload", 0, NoSuch))
             /\ last' = Step("reload", Top.fn, NoSuch, NoEntry, NoUrl)
             /\ UNCHANGED <<elems, proxies>>
    /\ UNCHANGED <<callFrame, stale, window_handles, focused, nhandles>>

\* the except clauses of the wrapper other than the re-attachment: what the
\* frame raises to its caller
Raised(frame, e) ==
    IF frame.attempt = 1 /\ e \in {Timeout, WebDriverExc} THEN ProxyExc ELSE e

Propagate ==
    /\ stack # <<>> /\ exc # "none"
    /\ ~(exc = Stale /\ Top.attempt = 1)
    /\ exc' = Raised(Top, exc)
    /\ stack' = PopFrame
    /\ last' = Step("raise", Top.fn, Raised(Top, exc), NoEntry, NoUrl)
    /\ UNCHANGED <<callFrame, cached_attrs, proxies, elems, stale, searches,
                   window_handles, focused, nhandles, log>>

-----------------------------------------------------------------------------
(* AbstractBasePage.find_element: a proxy that no page attribute names *)

find_element(a) ==
    /\ stack = <<>>
    /\ searches' = 1
    /\ \/ /\ Len(elems) < MaxElems /\ Len(proxies) < MaxProxies
          /\ elems' = Append(elems, NewElem(a))
          /\ proxies' = Append(proxies, NewProxy(NoAttr, a, Len(elems) + 1))
          /\ last' = Step("find_element", a, "ok",
                          [kind |-> "proxy", ids |-> <<Len(proxies) + 1>>], NoUrl)
       \/ /\ last' = Step("find_element", a, NoSuch, NoEntry, NoUrl)
          /\ UNCHANGED <<elems, proxies>>
    /\ exc' = "none" /\ log' = <<>>
    /\ UNCHANGED <<callFrame, cached_attrs, stale, window_handles, focused, nhandles,
                   stack>>

-----------------------------------------------------------------------------
(* The browser *)

\* the application re-renders a part of the DOM: an element that some proxy
\* wraps leaves the session
Wrapped == {proxies[p].obj : p \in 1..Len(proxies)}

DomChurn(e) ==
    /\ e \in Wrapped \ stale
    /\ stale' = stale \cup {e}
    /\ last' = Step("dom", NoAttr, "", NoEntry, NoUrl)
    /\ UNCHANGED <<callFrame, cached_attrs, proxies, elems, searches, window_handles,
                   focused, nhandles, stack, exc, log>>

\* the application changes the route without driver.get (link, redirect)
Browse(url) ==
    /\ stack = <<>>
    /\ url # current_url
    /\ current_url' = url
    /\ last' = Step("browse", NoAttr, "", NoEntry, url)
    /\ exc' = "none" /\ log' = <<>> /\ searches' = 0
    /\ UNCHANGED <<page_url, valid_urls, cached_attrs, proxies, elems, stale,
                   window_handles, focused, nhandles, stack>>

-----------------------------------------------------------------------------
(* Specification of the page runtime *)

\* the steps of the page runtime leave the table and the visibility wait alone
PageOnly == UNCHANGED <<tableVars, waitVars, configVars, parserVars, page_dict>>

NoLast == Step("init", NoAttr, "", NoEntry, NoUrl)

\* BasePage.__init__: a page object constructed with open_page=False in a
\* browser showing some other page, or with open_page=True and showing page_url
PageInit(route, declared, open_page) ==
    /\ page_url = MetaPageUrl(route)
    /\ valid_urls = MetaValidUrls(declared, route)
    /\ current_url = IF open_page THEN MetaPageUrl(route) ELSE RedirectUrl
    /\ cached_attrs = EmptyCache
    /\ proxies = <<>>
    /\ elems = <<>>
    /\ stale = {}
    /\ searches = 0
    /\ window_handles = <<1>>
    /\ focused = 1
    /\ nhandles = 1
    /\ stack = <<>>
    /\ exc = "none"
    /\ log = <<>>
    /\ last = NoLast

TableIdle ==
    /\ thead = <<>>
    /\ head_search_attrs = {}
    /\ columns_indexes = <<>>
    /\ real_column_count = 0

WaitIdle == w = <<>> /\ display = <<>>

\* no config object, nothing generated
ConfigIdle == class_dict = <<>> /\ instance_dict = <<>>

ParserIdle == files = <<>> /\ navigation_classes_import_list = <<>>

\* a page whose __dict__ holds no descriptor
NoLists == page_dict = <<>>

RouteA == <<"/", "a">>
RouteB == <<"/", "b">>
RouteC == <<"/", "c">>

Init ==
    /\ PageInit(RouteA, <<RouteB>>, FALSE)
    /\ TableIdle
    /\ WaitIdle
    /\ ConfigIdle
    /\ ParserIdle
    /\ NoLists

Customs == {<<>>, RouteC}
Params == {<<>>}

Next ==
    \/ \E c \in Customs, q \in Params : open(c, q) /\ PageOnly
    \/ open_redirect_url(RedirectUrl) /\ PageOnly
    \/ \E a \in Attrs : Get(a) /\ PageOnly
    \/ find_element("btn") /\ PageOnly
    \/ \E p \in 1..Len(proxies) : Call(p, "get_attribute", FALSE) /\ PageOnly
    \/ Invoke /\ PageOnly
    \/ reload_target_object /\ PageOnly
    \/ Propagate /\ PageOnly
    \/ \E e \in AllElems : DomChurn(e) /\ PageOnly
    \/ Browse(page_url) /\ PageOnly

Spec == Init /\ [][Next]_vars

-----------------------------------------------------------------------------
(* Specification of click, click_and_wait and the tabs: the page has been   *)
(* constructed with open_page=True and shows its own URL                    *)

InitClick ==
    /\ PageInit(RouteA, <<RouteB>>, TRUE)
    /\ TableIdle
    /\ WaitIdle
    /\ ConfigIdle
    /\ ParserIdle
    /\ NoLists

NextClick ==
    \/ Get("btn") /\ PageOnly
    \/ \E p \in 1..Len(proxies), fn \in {"click", "click_and_wait"}, f \in BOOLEAN : Call(p, fn, f) /\ PageOnly
    \/ ClickUntil /\ PageOnly
    \/ Until /\ PageOnly
    \/ ClickObj /\ PageOnly
    \/ ClickFocus /\ PageOnly
    \/ WaitClick /\ PageOnly
    \/ WaitLoaders /\ PageOnly
    \/ reload_target_object /\ PageOnly
    \/ Propagate /\ PageOnly
    \/ \E e \in AllElems : DomChurn(e) /\ PageOnly
    \/ focus_on_last_opened_tab /\ PageOnly
    \/ focus_on_first_opened_tab /\ PageOnly

SpecClick == InitClick /\ [][NextClick]_vars

-----------------------------------------------------------------------------
(* Specification of the URL checks: page classes with different routes      *)

Routes == {<<>>, RouteA, <<"/", "a", "/">>, <<"/", "a", "?", "q">>, RouteB}
Declared == {<<>>, <<RouteB>>, <<<<"/", "a", "/">>>>}

UrlCustoms == {<<>>, RouteA, RouteB, RouteC, <<"/">>, <<"H", "/", "a", "?", "q">>,
               <<"H", "/", "c", "?", "q">>}
UrlParams == {<<>>, <<"k">>}

\* where the application may take the browser without driver.get
BrowseUrls ==
    {RedirectUrl} \cup {valid_urls[i] : i \in 1..Len(valid_urls)}
                  \cup {add_url_params(valid_urls[i], <<"k">>) : i \in 1..Len(valid_urls)}

InitUrl ==
    /\ \E route \in Routes, declared \in Declared : PageInit(route, declared, FALSE)
    /\ TableIdle
    /\ WaitIdle
    /\ ConfigIdle
    /\ ParserIdle
    /\ NoLists

NextUrl ==
    \/ \E c \in UrlCustoms, q \in UrlParams : open(c, q) /\ PageOnly
    \/ \E a \in {"btn", "tbl"} : Get(a) /\ PageOnly
    \/ \E u \in BrowseUrls : Browse(u) /\ PageOnly

SpecUrl == InitUrl /\ [][NextUrl]_vars

-----------------------------------------------------------------------------
(* AbstractBasePage.wait_visibility_one_of_elements                          *)

MaxWaitElems == 2

\* an optional value: None, or <<v>> for the value v
None == <<>>

WEB_DRIVER_WAIT == 10

WaitElems == 1..MaxWaitElems

\* the lists of distinct elements a test may pass
ElementLists ==
    UNION {{s \in [1..n -> WaitElems] : \A i, j \in 1..n : i # j => s[i] # s[j]} :
           n \in 0..MaxWaitElems}

\* the timeouts (None, 0, shorter than one tick, negative) and ticks a test may pass
Timeouts == {None, <<0>>, <<3>>, <<-1>>}
Ticks == {4, 5}

\* `timeout or config.WEB_DRIVER_WAIT`
timeout_or_default(timeout) ==
    IF timeout # None /\ timeout[1] # 0 THEN timeout[1] ELSE WEB_DRIVER_WAIT

is_displayed_Always(e) == TRUE

\* el.is_displayed() of an element that is attached to the DOM
is_displayed(e) == display[e] = "shown"

\* the call: its position (pc), its arguments and locals, what it returned or
\* raised, and the history of its polls: round holds what each element polled
\* in the current round showed when it was polled, nround counts the rounds
\* finished, missed tells whether a finished round polled a displayed element
WaitCall(elements, timeout, ticks) ==
    [pc |-> "while", elements |-> elements, timeout |-> timeout, ticks |-> ticks,
     run_time |-> timeout, idx |-> 0, res |-> "", ret |-> None,
     round |-> <<>>, nround |-> 0, missed |-> FALSE]

WaitNotCalled == [WaitCall(<<>>, 0, 0) EXCEPT !.pc = "idle"]

WaitDone(call, res, ret) == [call EXCEPT !.pc = "done", !.res = res, !.ret = ret]

\* entering the function: the check of the list and the timeout's default
wait_visibility_one_of_elements(elements, timeout, ticks) ==
    /\ w.pc \in {"idle", "done"}
    /\ LET call == WaitCall(elements, timeout_or_default(timeout), ticks)
       IN w' = IF elements = <<>>
               THEN WaitDone([call EXCEPT !.run_time = 0], "NoSuchElementException", None)
               ELSE call
    /\ UNCHANGED display

\* `while run_time > 0`, and the raise after the loop
WaitWhile ==
    /\ w.pc = "while"
    /\ w' = IF w.run_time > 0
            THEN [w EXCEPT !.pc = "for", !.idx = 1, !.round = <<>>]
            ELSE WaitDone(w, "ElementNotVisibleException", None)
    /\ UNCHANGED display

\* one pass of `for el in elements`: is_displayed() raises on an element that
\* left the DOM, the element is returned if it is displayed
WaitPoll ==
    /\ w.pc = "for"
    /\ LET el == w.elements[w.idx]
           polled == [w EXCEPT !.round = Append(@, display[el] = "shown")]
       IN w' = IF display[el] = "gone"
               THEN WaitDone(polled, Stale, None)
               ELSE IF is_displayed(el)
               THEN WaitDone(polled, "ok", <<el>>)
               ELSE IF w.idx < Len(w.elements)
               THEN [polled EXCEPT !.idx = @ + 1]
               ELSE [polled EXCEPT !.pc = "sleep"]
    /\ UNCHANGED display

\* time.sleep(ticks); run_time -= ticks
WaitSleep ==
    /\ w.pc = "sleep"
    /\ w' = [w EXCEPT !.pc = "while", !.run_time = @ - w.ticks, !.nround = @ + 1,
                      !.missed = @ \/ \E i \in DOMAIN w.round : w.round[i]]
    /\ UNCHANGED display

\* the application shows, hides or removes an element
Toggle(e, s) ==
    /\ display[e] \notin {s, "gone"}
    /\ display' = [display EXCEPT ![e] = s]
    /\ UNCHANGED w

WaitOnly == UNCHANGED <<pageVars, last, tableVars, configVars, parserVars, page_dict>>

InitWait ==
    /\ PageInit(RouteA, <<RouteB>>, TRUE)
    /\ TableIdle
    /\ ConfigIdle
    /\ ParserIdle
    /\ NoLists
    /\ w = WaitNotCalled
    /\ display = [e \in WaitElems |-> "hidden"]

NextWait ==
    \/ \E l \in ElementLists, t \in Timeouts, k \in Ticks :
          wait_visibility_one_of_elements(l, t, k) /\ WaitOnly
    \/ WaitWhile /\ WaitOnly
    \/ WaitPoll /\ WaitOnly
    \/ WaitSleep /\ WaitOnly
    \/ \E e \in WaitElems, s \in {"hidden", "shown", "gone"} : Toggle(e, s) /\ WaitOnly

SpecWait == InitWait /\ [][NextWait]_vars

-----------------------------------------------------------------------------
(* The table header: parsers.parse_table_thead, Table._parse_header and      *)
(* Table.get_column_index.  The header is modelled as lxml parsed it.        *)

MaxCols == 2

HEAD_COLUMN_TAG == "th"

\* Table._head_tag_text_key
head_tag_text_key == "text"

\* an HtmlElement: its tag, its text (None or <<string>>), the list of its
\* attributes as (name, value) pairs and its children
Node(tag, text, attrs, children) ==
    [tag |-> tag, text |-> text, attrs |-> attrs, children |-> children]

Whitespace == {" ", "\n"}

\* str.strip()
RECURSIVE strip(_)
strip(s) ==
    IF s = <<>> THEN s
    ELSE IF s[1] \in Whitespace THEN strip(Tail(s))
    ELSE IF s[Len(s)] \in Whitespace THEN strip(SubSeq(s, 1, Len(s) - 1))
    ELSE s

format_tag_text(text) ==
    LET t == IF text = None THEN <<"N", "o", "n", "e">> ELSE text[1]
    IN SelectSeq(strip(t), LAMBDA c : c # "\n")

\* dict.get(key): None if the key is missing
DictGet(d, key) == IF key \in DOMAIN d THEN <<d[key]>> ELSE None

\* res[name] of a defaultdict(dict)
DGet(res, name) == IF name \in DOMAIN res THEN res[name] ELSE <<>>

\* res[name][key] = index
DSet(res, name, key, index) == Put(res, name, Put(DGet(res, name), key, index))

\* the tr element parse_table_thead takes the columns from, None if there is none
tr_element(parsed_head) ==
    IF parsed_head.tag = "div"
    THEN LET trs == SelectSeq(parsed_head.children, LAMBDA item : item.tag = "tr")
         IN IF trs = <<>> THEN None ELSE <<trs[1]>>
    ELSE IF parsed_head.tag = "tr" THEN <<parsed_head>>
    ELSE None

\* `for name, value in item.items()`
RECURSIVE set_attributes(_, _, _, _)
set_attributes(res, items, attributes, index) ==
    IF items = <<>> THEN res
    ELSE LET name == items[1][1]
             value == items[1][2]
         IN set_attributes(IF value # <<>> /\ name \in attributes
                           THEN DSet(res, name, value, index)
                           ELSE res,
                           Tail(items), attributes, index)

\* `for item in tr_element.iterchildren()`
RECURSIVE parse_columns(_, _, _, _, _)
parse_columns(items, res, index, tag_text_key, attributes) ==
    IF items = <<>> THEN [raised |-> FALSE, res |-> res]
    ELSE IF items[1].tag # HEAD_COLUMN_TAG
    THEN parse_columns(Tail(items), res, index, tag_text_key, attributes)
    ELSE LET formatted_key == format_tag_text(items[1].text)
         IN IF tag_text_key \in DOMAIN res /\ formatted_key \in DOMAIN res[tag_text_key]
            THEN [raised |-> TRUE, res |-> res]
            ELSE parse_columns(
                    Tail(items),
                    set_attributes(DSet(res, tag_text_key, formatted_key, index),
                                   IF attributes # {} THEN items[1].attrs ELSE <<>>,
                                   attributes, index),
                    index + 1, tag_text_key, attributes)

\* raised: ValueError
parse_table_thead(head, tag_text_key, attributes) ==
    LET tr == tr_element(head)
    IN IF tr = None THEN [raised |-> TRUE, res |-> <<>>]
       ELSE parse_columns(tr[1].children, <<>>, 1, tag_text_key, attributes)

\* Table._parse_header, as Table.__get__ calls it on a cache miss
parse_header ==
    /\ LET parsed == parse_table_thead(thead, head_tag_text_key, head_search_attrs)
       IN IF parsed.raised
          THEN /\ last' = Step("_parse_header", NoAttr, "ValueError", None, NoUrl)
               /\ UNCHANGED <<columns_indexes, real_column_count>>
          ELSE /\ columns_indexes' = <<parsed.res>>
               /\ real_column_count' = Cardinality(DOMAIN DGet(parsed.res, head_tag_text_key))
               /\ last' = Step("_parse_header", NoAttr, "ok", None, NoUrl)
    /\ UNCHANGED <<thead, head_search_attrs>>

\* Column.__init__: a column searched by its visible name or by an attribute
Column(visible_name, attr_name, attr_value) ==
    [visible_name |-> visible_name, search_attr_name |-> attr_name,
     search_attr_value |-> attr_value]

\* Table.get_column_index of a parsed table
get_column_index(op, column) ==
    /\ columns_indexes # None
    /\ IF column.search_attr_value # <<>>
       THEN last' = Step(op, column, "ok",
                         DictGet(DGet(columns_indexes[1], column.search_attr_name),
                                 column.search_attr_value), NoUrl)
       ELSE LET col_index == DictGet(DGet(columns_indexes[1], head_tag_text_key),
                                     column.visible_name)
            IN IF col_index = None \/ col_index[1] = 0
               THEN last' = Step(op, column, "BaseTableException", None, NoUrl)
               ELSE last' = Step(op, column, "ok", col_index, NoUrl)
    /\ UNCHANGED tableVars

\* Column.index
index(column) == get_column_index("index", column)

TableOnly == UNCHANGED <<pageVars, waitVars, configVars, parserVars, page_dict>>

Texts == {None, <<<<"A">>>>, <<<<" ", "A">>>>, <<<<"A", "\n", "B">>>>}

AttrLists ==
    {<<>>, <<<<"id", <<"x">>>>>>, <<<<"id", <<"y">>>>>>, <<<<"id", <<>>>>>>,
     <<<<"id", <<"x">>>>, <<"text", <<"A">>>>>>}

Cells ==
    {Node("td", <<<<"A">>>>, <<>>, <<>>)}
        \cup {Node("th", t, a, <<>>) : t \in Texts, a \in AttrLists}

Rows == UNION {[1..n -> Cells] : n \in 0..MaxCols}

Tr(cells) == Node("tr", None, <<>>, cells)

\* the shapes of <thead>'s innerHTML: the header row alone, the header row
\* among other elements, no row at all
Heads ==
    {Tr(r) : r \in Rows}
        \cup {Node("div", None, <<>>,
                   <<Node("p", None, <<>>, <<>>), Tr(r),
                     Tr(<<Node("th", <<<<"Z">>>>, <<>>, <<>>)>>)>>) : r \in Rows}
        \cup {Node("div", None, <<>>, <<Node("p", None, <<>>, <<>>)>>),
              Node("span", None, <<>>, <<>>)}

\* the columns a Table subclass may declare: Column._set_parent has added the
\* attribute name of every column searched by attribute to _head_search_attrs
Columns ==
    {Column(n, "", <<>>) : n \in {<<"A">>, <<"A", "B">>, <<"N", "o", "n", "e">>, <<"B">>}}
        \cup {Column(<<"A">>, a, v) : a \in head_search_attrs, v \in {<<"x">>, <<"y">>, <<"A">>}}

InitTable ==
    /\ PageInit(RouteA, <<RouteB>>, TRUE)
    /\ WaitIdle
    /\ ConfigIdle
    /\ ParserIdle
    /\ NoLists
    /\ thead \in Heads
    /\ head_search_attrs \in {{}, {"id"}, {"id", "text"}}
    /\ columns_indexes = None
    /\ real_column_count = 0

NextTable ==
    \/ parse_header /\ TableOnly
    \/ \E c \in Columns : index(c) /\ TableOnly

SpecTable == InitTable /\ [][NextTable]_vars

-----------------------------------------------------------------------------
(* The configuration: helpers/base_config.py BaseConfig and config.py Config. *)
(* A string is a sequence of tokens; in the name of an environment variable   *)
(* the token "__" stands for the two characters of the separator.             *)

MaxEnv == 2

\* a Python value: its type and, by type, its number, its string or its items
Value(t, i, s, d) == [t |-> t, i |-> i, s |-> s, d |-> d]
IntV(i) == Value("int", i, <<>>, <<>>)
StrV(s) == Value("str", 0, s, <<>>)
BoolV(b) == Value("bool", IF b THEN 1 ELSE 0, <<>>, <<>>)
DictV(d) == Value("dict", 0, <<>>, d)
ListV == Value("list", 0, <<>>, <<>>)
NoneV == Value("NoneType", 0, <<>>, <<>>)
MethodV == Value("method", 0, <<>>, <<>>)

SUPPORTED_TYPES == {"str", "int", "float", "Decimal", "bool"}

\* names that start with "_"
PrivateNames == {"_secret"}

callable(value) == value.t = "method"

\* bool(value)
Truthy(value) ==
    CASE value.t \in {"int", "bool"} -> value.i # 0
      [] value.t = "str" -> value.s # <<>>
      [] value.t = "dict" -> DOMAIN value.d # {}
      [] value.t = "NoneType" -> FALSE
      [] OTHER -> TRUE

\* funs.str_or_bool
TRUE_VALUES == {<<"t", "r", "u", "e">>, <<"T", "r", "u", "e">>, <<"1">>, <<"y", "e", "s">>}
FALSE_VALUES == {<<"f", "a", "l", "s", "e">>, <<"F", "a", "l", "s", "e">>, <<"0">>, <<"n", "o">>}

str_or_bool(value) ==
    IF value \in TRUE_VALUES THEN BoolV(TRUE)
    ELSE IF value \in FALSE_VALUES THEN BoolV(FALSE)
    ELSE StrV(value)

DigitOf ==
    "0" :> 0 @@ "1" :> 1 @@ "2" :> 2 @@ "3" :> 3 @@ "4" :> 4 @@
    "5" :> 5 @@ "6" :> 6 @@ "7" :> 7 @@ "8" :> 8 @@ "9" :> 9

\* int(s) of a string of digits read so far as acc
RECURSIVE digits_value(_, _)
digits_value(s, acc) ==
    IF s = <<>> THEN acc ELSE digits_value(Tail(s), 10 * acc + DigitOf[s[1]])

\* int(s): None stands for ValueError
py_int(s) ==
    IF s # <<>> /\ \A k \in DOMAIN s : s[k] \in DOMAIN DigitOf
    THEN <<digits_value(s, 0)>>
    ELSE None

\* BaseConfig._convert_value_type_from_exist: None stands for the exception the
\* converter raises
convert_value_type_from_exist(exist_value, new_value) ==
    CASE exist_value.t = "bool" -> <<str_or_bool(new_value)>>
      [] exist_value.t = "int" ->
            IF py_int(new_value) = None THEN None ELSE <<IntV(py_int(new_value)[1])>>
      [] exist_value.t = "str" -> <<StrV(new_value)>>
      [] exist_value.t = "dict" -> IF new_value = <<>> THEN <<DictV(<<>>)>> ELSE None
      [] exist_value.t = "list" -> <<ListV>>
      [] OTHER -> None

\* the config object: the attributes of its class and its own __dict__
Cfg(cls, inst) == [cls |-> cls, inst |-> inst]

\* hasattr / getattr(self, name)
has_attr(cfg, name) == name \in DOMAIN cfg.inst \cup DOMAIN cfg.cls
get_attr(cfg, name) == IF name \in DOMAIN cfg.inst THEN cfg.inst[name] ELSE cfg.cls[name]

\* setattr(self, name, value)
set_attr(cfg, name, value) == [cfg EXCEPT !.inst = Put(@, name, value)]

\* BaseConfig._validate_attribute over a __dict__: TRUE iff it raises
validate_attribute(dict) ==
    \E name \in DOMAIN dict :
        /\ ~(name \in PrivateNames \/ callable(dict[name]))
        /\ dict[name].t \notin SUPPORTED_TYPES

\* BaseConfig._recursive_update_value_in_dict: the dict after the update, None
\* stands for an exception (KeyError, TypeError, ValueError, ConfigException)
RECURSIVE recursive_update_value_in_dict(_, _, _)
recursive_update_value_in_dict(base_dct, dct_vector, value) ==
    LET key == dct_vector[1]
    IN IF base_dct.t # "dict" \/ key \notin DOMAIN base_dct.d THEN None
       ELSE IF Len(dct_vector) > 1
       THEN LET sub == recursive_update_value_in_dict(base_dct.d[key], Tail(dct_vector), value)
            IN IF sub = None THEN None ELSE <<DictV(Put(base_dct.d, key, sub[1]))>>
       ELSE IF base_dct.d[key].t = "dict" THEN None
       ELSE LET converted == convert_value_type_from_exist(base_dct.d[key], value)
            IN IF converted = None THEN None
               ELSE <<DictV(Put(base_dct.d, key, converted[1]))>>

\* BaseConfig._update_attribute: the config after the update, None stands for
\* an exception; a nested update changes the dict object where getattr found it
update_attribute(cfg, attr_name, dct_keys, value) ==
    IF ~has_attr(cfg, attr_name) THEN None
    ELSE IF dct_keys = <<>>
    THEN LET converted == convert_value_type_from_exist(get_attr(cfg, attr_name), value)
         IN IF converted = None THEN None ELSE <<set_attr(cfg, attr_name, converted[1])>>
    ELSE LET updated == recursive_update_value_in_dict(get_attr(cfg, attr_name), dct_keys, value)
         IN IF updated = None THEN None
            ELSE IF attr_name \in DOMAIN cfg.inst
            THEN <<[cfg EXCEPT !.inst[attr_name] = updated[1]]>>
            ELSE <<[cfg EXCEPT !.cls[attr_name] = updated[1]]>>

\* str.startswith
startswith(s, prefix) ==
    Len(prefix) <= Len(s) /\ SubSeq(s, 1, Len(prefix)) = prefix

\* str.split('__') of a string of tokens: the names between the separators,
\* "" for an empty one
RECURSIVE split_names(_, _)
split_names(s, name) ==
    IF s = <<>> THEN <<name>>
    ELSE IF s[1] = "__" THEN <<name>> \o split_names(Tail(s), "")
    ELSE split_names(Tail(s), s[1])

\* key[len(self.ENV_KEY_PREFIX) + 2:].split('__')
env_names(key, prefix) == split_names(SubSeq(key, Len(prefix) + 2, Len(key)), "")

\* the loop of update_from_env over os.environ.items(), a list of <<key, value>>
RECURSIVE env_loop(_, _)
env_loop(cfg, environ) ==
    IF environ = <<>> THEN cfg
    ELSE LET key == environ[1][1]
             prefix == get_attr(cfg, "ENV_KEY_PREFIX").s
             names == env_names(key, prefix)
             updated == update_attribute(cfg, names[1], Tail(names), environ[1][2])
         IN env_loop(IF startswith(key, prefix) /\ updated # None THEN updated[1] ELSE cfg,
                     Tail(environ))

\* update_from_env as a function: raised tells RuntimeError
do_update_from_env(cfg, environ) ==
    IF get_attr(cfg, "ENV_KEY_PREFIX").t = "NoneType"
    THEN [raised |-> TRUE, cfg |-> cfg]
    ELSE [raised |-> FALSE, cfg |-> env_loop(cfg, environ)]

Config == Cfg(class_dict, instance_dict)

ConfigStep(op, arg, result) ==
    /\ class_dict' = result.cfg.cls
    /\ instance_dict' = result.cfg.inst
    /\ last' = Step(op, arg, IF result.raised THEN "RuntimeError" ELSE "ok", None, NoUrl)

\* BaseConfig.update_from_env with os.environ = environ
update_from_env(environ) ==
    ConfigStep("update_from_env", environ, do_update_from_env(Config, environ))

\* BaseConfig.update_from_custom_dict_config with os.environ = environ
update_from_custom_dict_config(config_, environ) ==
    LET names == {name \in DOMAIN config_ :
                     name \notin PrivateNames /\ ~callable(config_[name])}
        cfg == [Config EXCEPT !.inst = [name \in DOMAIN @ \cup names |->
                                           IF name \in names THEN config_[name] ELSE @[name]]]
    IN ConfigStep("update_from_custom_dict_config", config_,
                  IF Truthy(get_attr(cfg, "UPDATE_FROM_ENV"))
                  THEN do_update_from_env(cfg, environ)
                  ELSE [raised |-> FALSE, cfg |-> cfg])

ConfigOnly == UNCHANGED <<pageVars, tableVars, waitVars, parserVars, page_dict>>

\* the class Config of config.py with the BASE_APP_CONFIG a project fills in,
\* alone and with a list declared in the class body
AppConfig == DictV("app" :> DictV("base_url" :> StrV(<<"H">>)))

ConfigClass(base_app_config) ==
    "UPDATE_FROM_ENV" :> BoolV(TRUE) @@ "ENV_KEY_PREFIX" :> StrV(<<"test">>) @@
    "WEB_DRIVER_WAIT" :> IntV(10) @@ "ENABLE_CONSOLE_LOG" :> BoolV(TRUE) @@
    "BASE_APP_CONFIG" :> base_app_config @@ "update_from_env" :> MethodV

ClassBodies ==
    {ConfigClass(AppConfig), ConfigClass(AppConfig) @@ "BROWSERS" :> ListV}

EnvKey(prefix, path) == <<prefix, "__">> \o path

\* environment variables: applicable ones, ones of another prefix, an unknown
\* attribute, an unknown nested key, values that do not convert, dict targets
EnvVars ==
    {<<EnvKey("test", <<"WEB_DRIVER_WAIT">>), <<"7">>>>,
     <<EnvKey("test", <<"WEB_DRIVER_WAIT">>), <<"a">>>>,
     <<EnvKey("test", <<"BASE_APP_CONFIG">>), <<>>>>,
     <<EnvKey("test", <<"BASE_APP_CONFIG", "__", "app">>), <<"a">>>>,
     <<EnvKey("test", <<"BASE_APP_CONFIG", "__", "app", "__", "nope">>), <<"7">>>>,
     <<EnvKey("test", <<"NOPE">>), <<"7">>>>,
     <<EnvKey("other", <<"WEB_DRIVER_WAIT">>), <<"7">>>>}

\* os.environ: variables of different names
Environs ==
    UNION {{e \in [1..n -> EnvVars] : \A i, j \in 1..n : i # j => e[i][1] # e[j][1]} :
           n \in 0..MaxEnv}

CustomDicts ==
    {"BROWSERS" :> ListV,
     "UPDATE_FROM_ENV" :> BoolV(FALSE) @@ "_secret" :> ListV @@ "hook" :> MethodV,
     "ENV_KEY_PREFIX" :> NoneV}

\* config = Config(): BaseConfig.__init__ validates the object's __dict__, which
\* is empty, and updates from the environment
InitConfig ==
    /\ PageInit(RouteA, <<RouteB>>, TRUE)
    /\ TableIdle
    /\ WaitIdle
    /\ ParserIdle
    /\ NoLists
    /\ \E body \in ClassBodies, environ \in Environs :
          /\ ~validate_attribute(<<>>)
          /\ LET cfg == IF Truthy(body["UPDATE_FROM_ENV"])
                        THEN do_update_from_env(Cfg(body, <<>>), environ).cfg
                        ELSE Cfg(body, <<>>)
             IN class_dict = cfg.cls /\ instance_dict = cfg.inst

NextConfig ==
    \/ \E environ \in Environs : update_from_env(environ) /\ ConfigOnly
    \/ \E config_ \in CustomDicts, environ \in Environs :
          update_from_custom_dict_config(config_, environ) /\ ConfigOnly

SpecConfig == InitConfig /\ [][NextConfig]_vars

-----------------------------------------------------------------------------
(* The generator of page classes: parser/html_parser.py AngularFormatParser. *)
(* A generated text is kept by its parts: the template, the values formatted  *)
(* into it and the attribute lines written after it.                         *)

MaxNavs == 2

\* the replacement fields of the templates
Fields(template) ==
    CASE template = "PAGE_CLASS_REPR" ->
            {"additional_imports", "page_class", "raw_page_class", "base_metaclass"}
      [] template = "RAW_NAV_CLASS_REPR" ->
            {"additional_imports", "raw_page_class", "base_page_class"}
      [] template = "RAW_PAGE_CLASS_REPR" ->
            {"additional_imports", "raw_page_class", "base_page_class", "page_url",
             "page_conf_name"}

\* str.format with keyword arguments: None stands for KeyError, arguments the
\* template has no field for are ignored
format(template, kwargs) ==
    IF Fields(template) \subseteq DOMAIN kwargs
    THEN <<[template |-> template, values |-> [k \in Fields(template) |-> kwargs[k]]]>>
    ELSE None

EMPTY_CLASS_BODY == "pass"

XMLSyntaxError == "XMLSyntaxError"

\* _get_path_to_write and the __init__.py next to a module
PathToWrite(pages_root, file_name, is_nav_component) ==
    [root |-> pages_root, nav |-> is_nav_component, name |-> file_name]

InitPath(from_path) == [from_path EXCEPT !.name = "__init__"]

\* RelativeImportPath.get
ImportPath(to_path, from_path, class_name) ==
    [to |-> to_path, from |-> from_path, class |-> class_name]

\* obj.class_name and obj.raw_class_name of _parse_html
ClassName(file_name) == <<file_name>>
RawClassName(file_name) == <<file_name, "Raw">>

\* the text of a module: the header and the attributes written after it
Module(page_header, page_attrs) == [header |-> page_header, attrs |-> page_attrs]

\* AngularFormatParser._create_page_file: the files after the call
create_page_file(fs, path, page_header, page_attrs, rewrite) ==
    IF ~rewrite /\ path \in DOMAIN fs THEN fs
    ELSE Put(fs, path, Module(page_header, page_attrs))

\* AngularFormatParser._add_page_class_to_init_file: the files after the call;
\* the __init__.py holds the import lines appended to it
add_page_class_to_init_file(fs, from_path, class_name) ==
    LET init_path == InitPath(from_path)
        import_path == ImportPath(init_path, from_path, class_name)
    IN IF \E k \in DOMAIN fs[init_path] : fs[init_path][k] = import_path THEN fs
       ELSE [fs EXCEPT ![init_path] = Append(@, import_path)]

\* AngularFormatParser._get_navigations_for_page: <<attrs, classes_imports>>
get_navigations_for_page(path_to_write_page) ==
    LET list == navigation_classes_import_list
    IN << [k \in DOMAIN list |-> <<"nav", list[k][1]>>],
          [k \in DOMAIN list |-> ImportPath(path_to_write_page, list[k][2], list[k][1])] >>

ParserStep(op, file_name, parse, res) ==
    last' = Step(op, [file |-> file_name, parse |-> parse], res, None, NoUrl)

\* AngularFormatParser.create_page of <file_name>.html, whose parse gives the
\* attributes parse or raises XMLSyntaxError
create_page(file_name, parse, url) ==
    LET path_to_write_page == PathToWrite("pages", file_name, FALSE)
        path_to_write_raw_page == PathToWrite("raw_pages", file_name, FALSE)
        additional_imports ==
            <<"BasePage">> \o (IF parse # <<>> THEN <<"ElementDescriptor">> ELSE <<>>)
        page_raw == format("RAW_PAGE_CLASS_REPR",
                           "raw_page_class" :> RawClassName(file_name) @@
                           "additional_imports" :> additional_imports @@
                           "base_page_class" :> "BasePage" @@
                           "page_url" :> url @@
                           "app_name" :> "app" @@
                           "base_metaclass" :> "BasePageMeta")
        navs == get_navigations_for_page(path_to_write_page)
        page == format("PAGE_CLASS_REPR",
                       "page_class" :> ClassName(file_name) @@
                       "raw_page_class" :> RawClassName(file_name) @@
                       "base_metaclass" :> "BasePageMeta" @@
                       "additional_imports" :> navs[2] \o <<"BasePageMeta", "raw">>)
        raw_written == create_page_file(files, path_to_write_raw_page, page_raw[1], parse, TRUE)
        written == create_page_file(raw_written, path_to_write_page, page[1],
                                    IF navs[1] # <<>> THEN navs[1] ELSE <<EMPTY_CLASS_BODY>>,
                                    FALSE)
    IN /\ UNCHANGED navigation_classes_import_list
       /\ IF parse = XMLSyntaxError
          THEN UNCHANGED files /\ ParserStep("create_page", file_name, parse, "skipped")
          ELSE IF page_raw = None \/ page = None
          THEN UNCHANGED files /\ ParserStep("create_page", file_name, parse, "KeyError")
          ELSE /\ files' = add_page_class_to_init_file(written, path_to_write_page,
                                                       ClassName(file_name))
               /\ ParserStep("create_page", file_name, parse, "ok")

\* AngularFormatParser._create_navigation of <file_name>.html
create_navigation(file_name, parse, raw_page_custom_attr) ==
    LET path_to_write_page == PathToWrite("pages", file_name, TRUE)
        path_to_write_raw_page == PathToWrite("raw_pages", file_name, TRUE)
        additional_imports ==
            <<"BaseNavigation">> \o
            (IF parse # <<>> \/ raw_page_custom_attr # <<>>
             THEN <<"ElementDescriptor">> ELSE <<>>)
        page_raw == format("RAW_NAV_CLASS_REPR",
                           "raw_page_class" :> RawClassName(file_name) @@
                           "additional_imports" :> additional_imports @@
                           "base_page_class" :> "BaseNavigation")
        page == format("PAGE_CLASS_REPR",
                       "page_class" :> ClassName(file_name) @@
                       "raw_page_class" :> RawClassName(file_name) @@
                       "additional_imports" :> <<"BaseNavigationMeta", "raw">> @@
                       "base_metaclass" :> "BaseNavigationMeta")
        attributes == parse \o raw_page_custom_attr
        raw_written == create_page_file(files, path_to_write_raw_page, page_raw[1],
                                        IF attributes # <<>> THEN attributes
                                        ELSE <<EMPTY_CLASS_BODY>>,
                                        TRUE)
        written == create_page_file(raw_written, path_to_write_page, page[1],
                                    <<EMPTY_CLASS_BODY>>, FALSE)
    IN IF parse = XMLSyntaxError
       THEN /\ UNCHANGED <<files, navigation_classes_import_list>>
            /\ ParserStep("_create_navigation", file_name, parse, XMLSyntaxError)
       ELSE IF page_raw = None \/ page = None
       THEN /\ UNCHANGED <<files, navigation_classes_import_list>>
            /\ ParserStep("_create_navigation", file_name, parse, "KeyError")
       ELSE /\ Len(navigation_classes_import_list) < MaxNavs
            /\ files' = add_page_class_to_init_file(written, path_to_write_page,
                                                    ClassName(file_name))
            /\ navigation_classes_import_list' =
                  Append(navigation_classes_import_list,
                         <<ClassName(file_name), InitPath(path_to_write_page)>>)
            /\ ParserStep("_create_navigation", file_name, parse, "ok")

\* a new run of the generator: the class attribute navigation_classes_import_list
\* starts empty again, the files stay
NewRun ==
    /\ navigation_classes_import_list # <<>>
    /\ navigation_classes_import_list' = <<>>
    /\ UNCHANGED files
    /\ last' = Step("run", "", "ok", None, NoUrl)

\* the developer edits a generated module of pages/, the one the template
\* PAGE_CLASS_REPR says may be edited
EditPage(path) ==
    /\ path \in DOMAIN files
    /\ path.root = "pages" /\ path.name # "__init__"
    /\ files[path].attrs # <<"edited">>
    /\ files' = [files EXCEPT ![path].attrs = <<"edited">>]
    /\ UNCHANGED navigation_classes_import_list
    /\ last' = Step("edit", path, "ok", None, NoUrl)

ParserOnly == UNCHANGED <<pageVars, tableVars, waitVars, configVars, page_dict>>

HtmlFiles == {"login", "head"}

\* what _search_named_tags finds in a html file, or the error of lxml
Parses == {XMLSyntaxError, <<>>, <<"user">>, <<"user", "submit">>}

CustomAttrs == {<<>>, <<"custom">>}

\* the state after _set_pages_paths: the modules pages, raw_pages and their
\* navigation packages exist with an empty __init__.py
InitParser ==
    /\ PageInit(RouteA, <<RouteB>>, TRUE)
    /\ TableIdle
    /\ WaitIdle
    /\ ConfigIdle
    /\ NoLists
    /\ files = [p \in {PathToWrite(root, "__init__", nav) :
                          root \in {"pages", "raw_pages"}, nav \in BOOLEAN} |-> <<>>]
    /\ navigation_classes_import_list = <<>>

NextParser ==
    \/ \E file_name \in HtmlFiles, parse \in Parses :
          create_page(file_name, parse, RouteA) /\ ParserOnly
    \/ \E file_name \in HtmlFiles, parse \in Parses, custom \in CustomAttrs :
          create_navigation(file_name, parse, custom) /\ ParserOnly
    \/ NewRun /\ ParserOnly
    \/ \E path \in DOMAIN files : EditPage(path) /\ ParserOnly

SpecParser == InitParser /\ [][NextParser]_vars

-----------------------------------------------------------------------------
(* Groups of elements: pages/base_attributes.py ListOfElementDescriptor.     *)
(* A name is a sequence of tokens, "_" being the separator character.        *)

\* str.strip('_')
RECURSIVE lstrip_(_)
lstrip_(s) == IF s # <<>> /\ s[1] = "_" THEN lstrip_(Tail(s)) ELSE s

strip_(s) == lstrip_(rstrip(s, "_"))

\* '_'.join(strings)
RECURSIVE join_(_)
join_(strings) ==
    IF strings = <<>> THEN <<>>
    ELSE IF Len(strings) = 1 THEN strings[1]
    ELSE strings[1] \o <<"_">> \o join_(Tail(strings))

\* str(arg) of an argument of get
str(arg) ==
    CASE arg.t = "int" -> <<CHOOSE c \in DOMAIN DigitOf : DigitOf[c] = arg.i>>
      [] arg.t = "bool" -> IF arg.i = 1 THEN <<"True">> ELSE <<"False">>
      [] arg.t = "str" -> arg.s

\* isinstance(num, int): a bool is an int
is_int(arg) == arg.t \in {"int", "bool"}

\* ListOfElementDescriptor.__init__
ListOfElementDescriptor(base_name_parts, many, tag_attr_name) ==
    [base_name_parts |-> [k \in DOMAIN base_name_parts |-> strip_(base_name_parts[k])],
     many |-> many, tag_attr_name |-> tag_attr_name]

\* ListOfElementDescriptor._make_attr_name: None stands for BasePageException
make_attr_name(list, args) ==
    IF Len(args) # Len(list.base_name_parts) THEN None
    ELSE <<join_([k \in DOMAIN args |-> join_(<<list.base_name_parts[k], str(args[k])>>)])>>

\* ListOfElementDescriptor._print_search_value: //*[@tag_attr_name="attr_name"]
print_search_value(list, attr_name) == [attr |-> list.tag_attr_name, value |-> attr_name]

\* ListOfElementDescriptor._construct_attribute_descriptor
construct_attribute_descriptor(list, attr_name) ==
    [search_by |-> "xpath", value |-> print_search_value(list, attr_name),
     many |-> list.many, element_name |-> attr_name]

\* ListOfElementDescriptor._get_attribute_descriptor: page.__dict__ after it
get_attribute_descriptor(list, attr_name) ==
    IF attr_name \notin DOMAIN page_dict
    THEN Put(page_dict, attr_name, construct_attribute_descriptor(list, attr_name))
    ELSE page_dict

ListStep(op, list, numbers, res, ret) ==
    last' = Step(op, [list |-> list, numbers |-> numbers], res, ret, NoUrl)

\* a call that raises BasePageException before it reaches the page
ListRejects(op, list, numbers) ==
    /\ ListStep(op, list, numbers, "BasePageException", NoEntry)
    /\ searches' = 0
    /\ UNCHANGED <<page_dict, cached_attrs, proxies, elems>>

\* ElementDescriptor._search_element of a descriptor made for a list
SearchDescriptor(op, list, numbers, descriptor) ==
    LET a == descriptor.element_name
        locator == <<descriptor.search_by, descriptor.value>>
    IN /\ searches' = 1
       /\ \/ \E k \in 1..(IF descriptor.many THEN 2 ELSE 1) :
               /\ Len(elems) + k <= MaxElems /\ Len(proxies) + k <= MaxProxies
               /\ elems' = elems \o [i \in 1..k |-> NewElem(locator)]
               /\ proxies' = proxies \o [i \in 1..k |-> NewProxy(a, locator, Len(elems) + i)]
               /\ LET entry == [kind |-> IF descriptor.many THEN "list" ELSE "proxy",
                                ids |-> [i \in 1..k |-> Len(proxies) + i]]
                  IN /\ cached_attrs' = Put(cached_attrs, a, entry)
                     /\ ListStep(op, list, numbers, "ok", entry)
          \/ /\ ListStep(op, list, numbers,
                         IF descriptor.many THEN "BasePageException" ELSE NoSuch, NoEntry)
             /\ UNCHANGED <<elems, proxies, cached_attrs>>

\* the body of ListOfElementDescriptor.get, called as op
GetFromList(op, list, numbers) ==
    LET attr_name == make_attr_name(list, numbers)
        dict == get_attribute_descriptor(list, attr_name[1])
        descriptor == dict[attr_name[1]]
    IN IF attr_name = None THEN ListRejects(op, list, numbers)
       ELSE /\ page_dict' = dict
            /\ IF ~check_opened
               THEN /\ ListStep(op, list, numbers, "PageNotOpened", NoEntry)
                    /\ searches' = 0
                    /\ UNCHANGED <<cached_attrs, proxies, elems>>
               ELSE IF CacheMiss(descriptor.element_name)
               THEN SearchDescriptor(op, list, numbers, descriptor)
               ELSE /\ ListStep(op, list, numbers, "ok", cached_attrs[descriptor.element_name])
                    /\ searches' = 0
                    /\ UNCHANGED <<cached_attrs, proxies, elems>>

listFrame ==
    <<page_url, valid_urls, current_url, stale, window_handles, focused, nhandles,
      stack, exc, log>>

\* ListOfElementDescriptor.get
get(list, numbers) == GetFromList("get", list, numbers) /\ UNCHANGED listFrame

\* ListOfElementDescriptor.get_by_index
get_by_index(list, numbers) ==
    /\ IF \E k \in DOMAIN numbers : ~is_int(numbers[k])
       THEN ListRejects("get_by_index", list, numbers)
       ELSE GetFromList("get_by_index", list, numbers)
    /\ UNCHANGED listFrame

\* ListOfElementDescriptor.__getitem__
getitem(list, item) ==
    /\ IF ~is_int(item)
       THEN ListRejects("__getitem__", list, <<item>>)
       ELSE GetFromList("__getitem__", list, <<item>>)
    /\ UNCHANGED listFrame

\* ListOfElementDescriptor.get_no_load
get_no_load(list, numbers) ==
    LET attr_name == make_attr_name(list, numbers)
    IN /\ IF attr_name = None THEN ListRejects("get_no_load", list, numbers)
          ELSE /\ page_dict' = get_attribute_descriptor(list, attr_name[1])
               /\ ListStep("get_no_load", list, numbers, "ok", NoEntry)
               /\ searches' = 0
               /\ UNCHANGED <<cached_attrs, proxies, elems>>
       /\ UNCHANGED listFrame

ListOnly == UNCHANGED <<tableVars, waitVars, configVars, parserVars>>

DATA_E2E_ATTRIBUTE_NAME == "data-e2e"

\* the lists a page class declares: rows by the default attribute, a list of
\* the same names grouped by the attribute name, and cells with two parts
Lists ==
    {ListOfElementDescriptor(<<<<"row", "_">>>>, FALSE, DATA_E2E_ATTRIBUTE_NAME),
     ListOfElementDescriptor(<<<<"row">>>>, FALSE, "name"),
     ListOfElementDescriptor(<<<<"_", "r", "_">>, <<"c">>>>, TRUE, DATA_E2E_ATTRIBUTE_NAME)}

Numbers == {IntV(1), StrV(<<"x">>)}

\* the arguments of a call: none, one, two
NumberLists ==
    {<<>>, <<IntV(1)>>, <<StrV(<<"x">>)>>, <<IntV(1), IntV(1)>>, <<IntV(1), StrV(<<"x">>)>>}

InitList ==
    /\ PageInit(RouteA, <<RouteB>>, TRUE)
    /\ TableIdle
    /\ WaitIdle
    /\ ConfigIdle
    /\ ParserIdle
    /\ NoLists

NextList ==
    \/ \E list \in Lists, numbers \in NumberLists : get(list, numbers) /\ ListOnly
    \/ \E list \in Lists, numbers \in NumberLists : get_by_index(list, numbers) /\ ListOnly
    \/ \E list \in Lists, item \in Numbers : getitem(list, item) /\ ListOnly
    \/ \E list \in Lists, numbers \in NumberLists : get_no_load(list, numbers) /\ ListOnly
    \/ \E url \in {RouteA, RouteC} : Browse(JoinBase(url)) /\ PageOnly

SpecList == InitList /\ [][NextList]_vars

-----------------------------------------------------------------------------
(* Properties of the page runtime *)

Navigated(l) == l.op \in {"open", "open_redirect_url"} /\ l.res # "PageNotOpened"

\* C1: a call that reaches _open or open_redirect_url leaves page._cached_attrs
\* empty; no object in the cache wraps an element found before the latest
\* driver.get; and a descriptor read that directly follows the navigation (and
\* passes check_opened) searches the driver.
C1_CacheInvalidatedOnNavigation ==
    [][ /\ Navigated(last') => cached_attrs' = EmptyCache
        /\ \A a \in DOMAIN cached_attrs' : \A i \in DOMAIN cached_attrs'[a].ids :
              ~elems'[proxies'[cached_attrs'[a].ids[i]].obj].old
        /\ (Navigated(last) /\ last'.op = "get" /\ last'.res # "PageNotOpened")
              => searches' = 1
      ]_vars

\* an attribute resolved before a navigation has been resolved again after it
C1_Witness ==
    /\ last.op = "get" /\ last.arg = "btn" /\ last.res = "ok" /\ searches = 1
    /\ \E p \in 1..Len(proxies) :
          /\ proxies[p].attr_name = "btn"
          /\ elems[proxies[p].obj].old
          /\ p \notin {last.ret.ids[i] : i \in DOMAIN last.ret.ids}

C3_RetryActsOnNewElement ==
    \A i \in DOMAIN log :
        (log[i].ev \in {"invoke", "click"} /\ log[i].attempt = 2) => log[i].elem = log[i].obj

\* C4: a successful _reload_target_object changes nothing of the proxy but the
\* wrapped WebElement, which is one newly found by the proxy's locator; no
\* proxy is created and no other proxy changes; a proxy with an attr_name is
\* afterwards the cache entry of that attr_name, a proxy without one leaves the
\* cache as it was.
C4_ReattachKeepsIdentity ==
    [][ (last'.op = "reload" /\ last'.res = "ok") =>
           LET p == Top.proxy
           IN /\ Len(proxies') = Len(proxies)
              /\ \A q \in 1..Len(proxies) : q # p => proxies'[q] = proxies[q]
              /\ proxies'[p].attr_name = proxies[p].attr_name
              /\ proxies'[p].locator = proxies[p].locator
              /\ proxies'[p].obj \in (1..Len(elems')) \ AllElems
              /\ elems'[proxies'[p].obj].loc = proxies[p].locator
              /\ IF proxies[p].attr_name # NoAttr
                 THEN /\ proxies[p].attr_name \in DOMAIN cached_attrs'
                      /\ cached_attrs'[proxies[p].attr_name].ids = <<p>>
                 ELSE cached_attrs' = cached_attrs
      ]_vars

\* a proxy obtained through a descriptor has just been re-attached
C4_Witness ==
    /\ last.op = "reload" /\ last.res = "ok" /\ stack # <<>>
    /\ proxies[Top.proxy].attr_name = "btn"
    /\ cached_attrs["btn"].ids = <<Top.proxy>>
    /\ proxies[Top.proxy].obj \notin stale

IsPrefix(p, s) == Len(p) <= Len(s) /\ SubSeq(s, 1, Len(p)) = p

\* C5: a descriptor read on a page that fails check_opened raises
\* PageNotOpened, searches nothing and leaves the cache alone; and whenever the
\* browser shows the page's own page_url, check_opened passes.
C5_CheckOpenedGuardsAccess ==
    [][ /\ (last'.op = "get" /\ ~check_opened) =>
              /\ last'.res = "PageNotOpened"
              /\ searches' = 0
              /\ cached_attrs' = cached_attrs
        /\ (current_url' = page_url') => check_opened'
      ]_vars

\* C6: BasePage.open raises PageNotOpened exactly when a custom_url is given
\* whose base part (trailing "/" stripped) is contained in no entry of
\* valid_urls, and then neither driver.get is called nor the cache touched;
\* otherwise the URL passed to driver.get is an entry of valid_urls (page_url
\* when no custom_url is given), either as it is or followed by a query
\* string, and the cache is cleared.
C6_OpenOnlyValidUrls ==
    [][ last'.op = "open" =>
           LET custom == last'.custom
               pattern == rstrip(split_url_and_params(custom)[1], "/")
               matches == \E i \in 1..Len(valid_urls) : Contains(pattern, valid_urls[i])
           IN IF custom # <<>> /\ ~matches
              THEN /\ last'.res = "PageNotOpened"
                   /\ last'.url = NoUrl
                   /\ current_url' = current_url
                   /\ cached_attrs' = cached_attrs
                   /\ stale' = stale /\ elems' = elems
              ELSE /\ last'.res # "PageNotOpened"
                   /\ \E i \in 1..Len(valid_urls) :
                         /\ IsPrefix(valid_urls[i], last'.url)
                         /\ \/ last'.url = valid_urls[i]
                            \/ last'.url[Len(valid_urls[i]) + 1] \in {"?", "&"}
                   /\ custom = <<>> => IsPrefix(page_url, last'.url)
                   /\ cached_attrs' = EmptyCache
      ]_vars

\* open was refused while the cache held a resolved attribute
C6_Witness ==
    /\ last.op = "open" /\ last.res = "PageNotOpened" /\ last.custom = RouteC
    /\ cached_attrs # EmptyCache

\* C7: when focus_on_last_opened_tab runs (called directly or by click) with
\* more than one window open, afterwards the only open window is the one that
\* was last in window_handles, the driver is switched to it and the cache is
\* empty.
C7_FocusLastTab ==
    [][ ( /\ \/ last'.op = "focus_on_last_opened_tab"
             \/ last'.op = "click.focus" /\ Top.focus
          /\ Len(window_handles) > 1 ) =>
           /\ window_handles' = <<window_handles[Len(window_handles)]>>
           /\ focused' = window_handles[Len(window_handles)]
           /\ cached_attrs' = EmptyCache
      ]_vars

\* the tab opened by a click is the only one left and has the focus
C7_Witness ==
    /\ last.op = "focus_on_last_opened_tab"
    /\ window_handles = <<nhandles>> /\ nhandles > 1 /\ focused = nhandles
    /\ cached_attrs = EmptyCache

Ok(e, ev) == e.ev = ev /\ e.res = "ok"

\* C8: in every call, the wrapped element is clicked only directly after a
\* successful clickable wait; focus_on_last_opened_tab is called only directly
\* after a successful click and only with focus_on_opened_tab true; the page
\* loader is awaited only after click has returned and the table loader only
\* directly after the page loader was hidden; and a call that returns has done
\* all of its steps.
C8_ClickOrder ==
    /\ \A i \in DOMAIN log :
          /\ log[i].ev = "click" => i > 1 /\ Ok(log[i - 1], "until")
          /\ log[i].ev = "focus" => i > 1 /\ Ok(log[i - 1], "click") /\ log[i].focus
          /\ log[i].ev = "loader" =>
                /\ i > 1
                /\ IF log[i].focus THEN Ok(log[i - 1], "focus") ELSE Ok(log[i - 1], "click")
          /\ log[i].ev = "tableloader" => i > 1 /\ Ok(log[i - 1], "loader")
          /\ (Ok(log[i], "click") /\ log[i].focus /\ i < Len(log)) => log[i + 1].ev = "focus"
    /\ (stack = <<>> /\ exc = "none" /\ last.op = "click.focus") =>
          IF log[Len(log)].focus THEN Ok(log[Len(log)], "focus") ELSE Ok(log[Len(log)], "click")
    /\ (stack = <<>> /\ exc = "none" /\ last.op = "click_and_wait.loaders") =>
          /\ Len(log) >= 4
          /\ Ok(log[Len(log)], "tableloader")

\* click_and_wait has returned after a re-attachment and a focus on the new tab
C8_Witness ==
    /\ stack = <<>> /\ exc = "none" /\ last.op = "click_and_wait.loaders"
    /\ \E i \in DOMAIN log : log[i].ev = "reload"
    /\ \E i \in DOMAIN log : log[i].ev = "focus"

-----------------------------------------------------------------------------
(* Properties of the visibility wait *)

\* C9: wait_visibility_one_of_elements called with an empty list raises
\* NoSuchElementException and has polled nothing; a call goes on polling only
\* while no element it polled was displayed; and when it returns, it returns the
\* element it polled last, that element was displayed when polled and every
\* element polled before it in the same round, like every element polled in an
\* earlier round, was not.
C9_WaitVisibility ==
    /\ (w.pc = "done" /\ w.elements = <<>>) =>
          w.res = "NoSuchElementException" /\ w.round = <<>> /\ w.nround = 0
    /\ w.res = "NoSuchElementException" => w.elements = <<>>
    /\ w.pc \in {"while", "for", "sleep"} =>
          ~w.missed /\ \A i \in DOMAIN w.round : ~w.round[i]
    /\ (w.pc = "done" /\ w.res = "ok") =>
          /\ w.round # <<>>
          /\ w.round[Len(w.round)]
          /\ w.ret = <<w.elements[Len(w.round)]>>
          /\ \A i \in 1..(Len(w.round) - 1) : ~w.round[i]
          /\ ~w.missed
    /\ (w.pc = "done" /\ w.ret # None) => w.res = "ok"

\* the second element of the list is returned in a later round than the first
C9_Witness ==
    /\ w.pc = "done" /\ w.res = "ok"
    /\ w.nround >= 1
    /\ Len(w.elements) = 2 /\ w.ret = <<w.elements[2]>>

-----------------------------------------------------------------------------
(* Properties of the table header *)

HeaderRow == tr_element(thead)

\* the <th> children of the header row, left to right
Ths == SelectSeq(HeaderRow[1].children, LAMBDA c : c.tag = HEAD_COLUMN_TAG)

\* the requested search attributes the k-th <th> carries with a non-empty value
Requested(k) ==
    {j \in DOMAIN Ths[k].attrs :
        Ths[k].attrs[j][1] \in head_search_attrs /\ Ths[k].attrs[j][2] # <<>>}

Recorded(name, value) == DictGet(DGet(columns_indexes[1], name), value)

\* what Column documents of a search attribute: its values are unique in the
\* header; and it is not kept under the key of the visible text
AttributesAsDocumented ==
    /\ head_tag_text_key \notin head_search_attrs
    /\ \A k1, k2 \in DOMAIN Ths : \A j1 \in Requested(k1), j2 \in Requested(k2) :
          Ths[k1].attrs[j1] = Ths[k2].attrs[j2] => k1 = k2

\* the <th> a column searches for
Matches(column, th) ==
    IF column.search_attr_value # <<>>
    THEN \E j \in DOMAIN th.attrs :
            th.attrs[j] = <<column.search_attr_name, column.search_attr_value>>
    ELSE format_tag_text(th.text) = column.visible_name

\* C10: once the header row of a table is parsed, the k-th <th> child of the row
\* has the index k recorded under its visible text and under every requested
\* search attribute it carries with a non-empty value, real_column_count is the
\* number of <th> children, and Column.index returns the position of the column's
\* <th>.  Stated for headers whose search attributes are as Column documents them.
C10_ColumnIndexing ==
    /\ (last.op = "_parse_header" /\ HeaderRow # None /\ AttributesAsDocumented) =>
          /\ last.res = "ok"
          /\ columns_indexes # None
          /\ \A k \in DOMAIN Ths :
                /\ Recorded(head_tag_text_key, format_tag_text(Ths[k].text)) = <<k>>
                /\ \A j \in Requested(k) :
                      Recorded(Ths[k].attrs[j][1], Ths[k].attrs[j][2]) = <<k>>
          /\ real_column_count = Len(Ths)
    /\ (last.op = "index" /\ AttributesAsDocumented) =>
          \A k \in DOMAIN Ths :
             Matches(last.arg, Ths[k]) => last.res = "ok" /\ last.ret = <<k>>

-----------------------------------------------------------------------------
(* Properties of the configuration *)

\* a value of a supported type, or a dict of such values
RECURSIVE Supported(_)
Supported(value) ==
    \/ value.t \in SUPPORTED_TYPES
    \/ value.t = "dict" /\ \A k \in DOMAIN value.d : Supported(value.d[k])

\* C11: a Config object never holds a public attribute of a type other than str,
\* int, float, Decimal and bool (taking a dict as the container of nested values
\* that the class documents), whether the attribute comes from the class body
\* or was set through update_from_custom_dict_config.
C11_OnlySupportedTypes ==
    \A name \in DOMAIN class_dict \cup DOMAIN instance_dict :
        (name \notin PrivateNames /\ ~callable(get_attr(Config, name))) =>
            Supported(get_attr(Config, name))

\* the value a path of names leads to in the config, None if there is none
RECURSIVE ResolveIn(_, _)
ResolveIn(value, path) ==
    IF path = <<>> THEN <<value>>
    ELSE IF value.t # "dict" \/ path[1] \notin DOMAIN value.d THEN None
    ELSE ResolveIn(value.d[path[1]], Tail(path))

Resolve(cfg, path) ==
    IF ~has_attr(cfg, path[1]) THEN None ELSE ResolveIn(get_attr(cfg, path[1]), Tail(path))

\* C12: update_from_env leaves the target of every variable that cannot be
\* applied as it was: an unknown attribute or nested key is not created, a
\* dict-valued target is not replaced, a target whose type does not convert the
\* value keeps its value; and every other variable of the prefix is applied.
C12_EnvVariablesIndependent ==
    [][ (last'.op = "update_from_env" /\ last'.res = "ok") =>
          \A k \in DOMAIN last'.arg :
             LET key == last'.arg[k][1]
                 value == last'.arg[k][2]
                 prefix == get_attr(Config, "ENV_KEY_PREFIX").s
                 path == env_names(key, prefix)
                 before == Resolve(Config, path)
                 after == Resolve(Cfg(class_dict', instance_dict'), path)
             IN startswith(key, prefix) =>
                   IF before = None THEN after = None
                   ELSE IF before[1].t = "dict" THEN after = before
                   ELSE IF convert_value_type_from_exist(before[1], value) = None
                   THEN after = before
                   ELSE after = convert_value_type_from_exist(before[1], value)
      ]_vars

-----------------------------------------------------------------------------
(* Properties of the generator *)

\* C13: a run of create_page or _create_navigation over a html file that parses
\* leaves the raw module holding the attributes of this parse, writes the
\* editable module only if it did not exist, and leaves every editable module
\* that existed before as it was.
C13_GeneratedFiles ==
    [][ (last'.op \in {"create_page", "_create_navigation"}
            /\ last'.arg.parse # XMLSyntaxError) =>
          LET nav == last'.op = "_create_navigation"
              raw == PathToWrite("raw_pages", last'.arg.file, nav)
              editable == PathToWrite("pages", last'.arg.file, nav)
          IN /\ raw \in DOMAIN files'
             /\ \A k \in DOMAIN last'.arg.parse :
                   \E j \in DOMAIN files'[raw].attrs :
                      files'[raw].attrs[j] = last'.arg.parse[k]
             /\ editable \in DOMAIN files'
             /\ \A p \in DOMAIN files :
                   (p.root = "pages" /\ p.name # "__init__") => files'[p] = files[p]
      ]_vars

-----------------------------------------------------------------------------
(* Properties of the groups of elements *)

\* part_1 _ n_1 _ part_2 _ n_2 ...
RECURSIVE Composed(_, _)
Composed(parts, numbers) ==
    IF parts = <<>> THEN <<>>
    ELSE parts[1] \o <<"_">> \o str(numbers[1])
            \o (IF Len(parts) > 1 THEN <<"_">> ELSE <<>>)
            \o Composed(Tail(parts), Tail(numbers))

\* C14: get and get_by_index with a number of arguments other than
\* len(base_name_parts), and get_by_index with an argument that is not an int,
\* raise BasePageException without any search by the driver; otherwise every
\* element they return was looked up by the list's grouping attribute equal to
\* part_1_n_1_part_2_n_2...
C14_ListLookup ==
    [][ last'.op \in {"get", "get_by_index"} /\ "list" \in DOMAIN last'.arg =>
          LET list == last'.arg.list
              numbers == last'.arg.numbers
          IN IF \/ Len(numbers) # Len(list.base_name_parts)
                \/ /\ last'.op = "get_by_index"
                   /\ \E k \in DOMAIN numbers : ~is_int(numbers[k])
             THEN /\ last'.res = "BasePageException"
                  /\ searches' = 0
                  /\ UNCHANGED <<elems, proxies, cached_attrs, page_dict>>
             ELSE last'.res = "ok" =>
                     \A k \in DOMAIN last'.ret.ids :
                        proxies'[last'.ret.ids[k]].locator =
                           <<"xpath", [attr |-> list.tag_attr_name,
                                       value |-> Composed(list.base_name_parts, numbers)]>>
      ]_vars

-----------------------------------------------------------------------------
(* Properties of the retry of catch_not_attach_to_session *)

\* the re-finds of the call in progress
Reloads == {i \in DOMAIN log : log[i].ev = "reload"}

\* C15 as stated: a single call of a method through WebElementProxy triggers at
\* most one re-find of the element.
C15_OneRefindPerCall == Cardinality(Reloads) <= 1

\* C15: every wrapper re-finds the element at most once, on a
\* StaleElementReferenceException of its first invocation, and then invokes its
\* function a second and last time; an exception of the second invocation goes
\* to the caller of this wrapper with no re-find and no retry of its own; the
\* wrappers of one call are nested at most three deep (click_and_wait, click,
\* until), each counting its own attempts.
C15_BoundedRetry ==
    [][ /\ (Len(log') > Len(log) /\ log'[Len(log')].ev = "reload") =>
              /\ exc = Stale /\ Top.attempt = 1
              /\ Len(stack') = Len(stack) =>
                    stack'[Len(stack')].attempt = 2 /\ exc' = "none"
        /\ (stack # <<>> /\ exc # "none" /\ Top.attempt = 2 /\ stack' # stack) =>
              /\ stack' = PopFrame
              /\ exc' = exc
              /\ log' = log /\ searches' = searches /\ elems' = elems
        /\ \A i \in 1..Len(stack) :
              i <= Len(stack') => /\ stack'[i].attempt >= stack[i].attempt
                                  /\ stack'[i].attempt \in {1, 2}
        /\ Len(stack') <= 3
      ]_vars

\* a call of click_and_wait in which the wrapper of click re-found the element,
\* its second invocation raised StaleElementReferenceException to the wrapper
\* of click_and_wait, and that wrapper re-found the element once more and is
\* in its second invocation
C15_Witness ==
    /\ Len(stack) >= 1
    /\ stack[1].fn = "click_and_wait" /\ stack[1].attempt = 2
    /\ Cardinality(Reloads) >= 2
    /\ \E i \in DOMAIN log : log[i].ev = "reload" /\ log[i].fn = "click" /\ log[i].res = "ok"

====
